---- MODULE Spec2Model ----
(***************************************************************************)
(* Git Bridge API (src/git-bridge/app.py): a policy gate (path allow/deny  *)
(* rules, secret-content scan) in front of the forge calls of the read     *)
(* endpoint and of the apply workflow (branch, file upserts, PR, label).   *)
(*                                                                         *)
(* Text is modelled as sequences of Unicode code points, bytes as          *)
(* sequences of 0..255.  Regular expressions are modelled as sequences of  *)
(* items (a character set with a quantifier, or an anchor) and matched by  *)
(* position, as Python's re does for patterns of this shape.               *)
(***************************************************************************)
EXTENDS Integers, Sequences, FiniteSets, TLC

(***************************************************************************)
(* Text                                                                    *)
(***************************************************************************)

\* The printable ASCII characters of code points 32..95 and 97..126, in order
\* (the grave accent, 96, has no string literal and is written as a number).
AsciiLow == " !\"#$%&'()*+,-./0123456789:;<=>?@ABCDEFGHIJKLMNOPQRSTUVWXYZ[\\]^_"
AsciiHigh == "abcdefghijklmnopqrstuvwxyz{|}~"

\* The code point of a one-character string.
Ord(c) ==
    IF c = "\n" THEN 10
    ELSE IF c = "\t" THEN 9
    ELSE IF c = "\r" THEN 13
    ELSE IF \E i \in 1..Len(AsciiLow) : SubSeq(AsciiLow, i, i) = c
         THEN 31 + (CHOOSE i \in 1..Len(AsciiLow) : SubSeq(AsciiLow, i, i) = c)
         ELSE 96 + (CHOOSE i \in 1..Len(AsciiHigh) : SubSeq(AsciiHigh, i, i) = c)

\* A string literal as a sequence of code points.
Str(s) == [i \in 1..Len(s) |-> Ord(SubSeq(s, i, i))]

NL == Str("\n")

Range(f) == {f[i] : i \in DOMAIN f}

(***************************************************************************)
(* Regular expressions: re.match / re.search (app.py:57, app.py:67)        *)
(***************************************************************************)

\* Character sets of the patterns.
AZ == 65..90
az == 97..122
Digits == 48..57
\* \s on str patterns, up to U+00FF
Whitespace == {9, 10, 11, 12, 13, 28, 29, 30, 31, 32, 133, 160}

\* re.IGNORECASE on str patterns: the lower case of the ASCII letters, and the
\* non-ASCII characters whose case folding is an ASCII letter (KELVIN SIGN,
\* LONG S, DOTLESS I, I WITH DOT ABOVE).
Fold(c) ==
    IF c \in AZ THEN c + 32
    ELSE CASE c = 8490 -> 107
           [] c = 383 -> 115
           [] c \in {304, 305} -> 105
           [] OTHER -> c

\* Pattern items.  q is the quantifier: "1" (exactly one), "?" , "*" , "+".
Bol == [kind |-> "bol"]                                        \* ^
Eol == [kind |-> "eol"]                                        \* $
In(S, q) == [kind |-> "in", chars |-> S, q |-> q]              \* [...] or a literal
NotIn(S, q) == [kind |-> "notin", chars |-> S, q |-> q]        \* [^...]
Dot(q) == [kind |-> "dot", q |-> q]                            \* .
\* A literal string: one item per character.
Lit(s) == [i \in 1..Len(s) |-> In({Ord(SubSeq(s, i, i))}, "1")]

\* Whether character c is matched by item it.
CharMatches(it, c, icase) ==
    CASE it.kind = "in" ->
            IF icase THEN Fold(c) \in {Fold(x) : x \in it.chars} ELSE c \in it.chars
      [] it.kind = "notin" ->
            IF icase THEN Fold(c) \notin {Fold(x) : x \in it.chars} ELSE c \notin it.chars
      [] it.kind = "dot" -> c # 10
      [] OTHER -> FALSE

\* The longest run of characters from position pos that item it matches.
RECURSIVE RunLen(_, _, _, _)
RunLen(it, s, pos, icase) ==
    IF pos > Len(s) \/ ~CharMatches(it, s[pos], icase) THEN 0
    ELSE 1 + RunLen(it, s, pos + 1, icase)

\* The numbers of characters item it may consume at pos.
Takes(it, s, pos, icase) ==
    LET m == RunLen(it, s, pos, icase)
    IN  CASE it.q = "1" -> IF m >= 1 THEN {1} ELSE {}
          [] it.q = "?" -> 0..(IF m >= 1 THEN 1 ELSE 0)
          [] it.q = "*" -> 0..m
          [] it.q = "+" -> 1..m

\* Whether items k.. of pat match s starting at position pos.
RECURSIVE MatchFrom(_, _, _, _, _)
MatchFrom(pat, k, s, pos, icase) ==
    IF k > Len(pat) THEN TRUE
    ELSE LET it == pat[k]
         IN  CASE it.kind = "bol" -> pos = 1 /\ MatchFrom(pat, k + 1, s, pos, icase)
               [] it.kind = "eol" ->
                    \* $ matches at the end and before a final newline
                    /\ \/ pos = Len(s) + 1
                       \/ pos = Len(s) /\ s[pos] = 10
                    /\ MatchFrom(pat, k + 1, s, pos, icase)
               [] OTHER ->
                    \E n \in Takes(it, s, pos, icase) :
                        MatchFrom(pat, k + 1, s, pos + n, icase)

\* re.match(p, text): the pattern matches at the start of text.
re_match(pat, s) == MatchFrom(pat, 1, s, 1, FALSE)

\* Defective variant: the search without flags=re.IGNORECASE.
re_search_case_sensitive(pat, s) ==
    \E pos \in 1..(Len(s) + 1) : MatchFrom(pat, 1, s, pos, FALSE)

\* re.search(p, text, flags=re.IGNORECASE): the pattern matches somewhere.
re_search_icase(pat, s) == \E pos \in 1..(Len(s) + 1) : MatchFrom(pat, 1, s, pos, TRUE)

(***************************************************************************)
(* Policy engine                                                           *)
(***************************************************************************)

PkgChars == AZ \cup az \cup Digits \cup {Ord("_"), Ord("-"), Ord("/")}
TokChars == AZ \cup az \cup Digits \cup {Ord("-"), Ord("_"), Ord(".")}
SlashOrSpace == {Ord("/")} \cup Whitespace

\* Defective variant: the packages rule without its optional letter (only .yaml).
ALLOWLIST_YAML_ONLY == <<
    <<Bol>> \o Lit("configuration.yaml") \o <<Eol>>,
    <<Bol>> \o Lit("automations.yaml") \o <<Eol>>,
    <<Bol>> \o Lit("scripts.yaml") \o <<Eol>>,
    <<Bol>> \o Lit("scenes.yaml") \o <<Eol>>,
    <<Bol>> \o Lit("packages/") \o <<In(PkgChars, "+")>> \o Lit(".yaml") \o <<Eol>>,
    <<Bol>> \o Lit("go2rtc.yaml.tpl") \o <<Eol>>
>>

ALLOWLIST_PATTERNS == <<
    <<Bol>> \o Lit("configuration.yaml") \o <<Eol>>,
    <<Bol>> \o Lit("automations.yaml") \o <<Eol>>,
    <<Bol>> \o Lit("scripts.yaml") \o <<Eol>>,
    <<Bol>> \o Lit("scenes.yaml") \o <<Eol>>,
    <<Bol>> \o Lit("packages/") \o <<In(PkgChars, "+")>> \o Lit(".y")
            \o <<In({Ord("a")}, "?")>> \o Lit("ml") \o <<Eol>>,
    <<Bol>> \o Lit("go2rtc.yaml.tpl") \o <<Eol>>
>>

DENYLIST_PATTERNS == <<
    <<Bol>> \o Lit(".ssh/"),
    <<Bol, Dot("*")>> \o Lit(".pem") \o <<Eol>>,
    <<Bol, Dot("*")>> \o Lit(".key") \o <<Eol>>,
    <<Bol, Dot("*")>> \o Lit(".env") \o <<Eol>>,
    <<Bol>> \o Lit(".optionb_env") \o <<Eol>>,
    <<Bol>> \o Lit(".go2rtc_env") \o <<Eol>>,
    <<Bol>> \o Lit("go2rtc.yaml") \o <<Eol>>,
    <<Bol>> \o Lit("bin/ha_git_pull.sh") \o <<Eol>>
>>

SECRET_CONTENT_PATTERNS == <<
    Lit("Authorization:") \o <<In(Whitespace, "*")>> \o Lit("Bearer")
        \o <<In(Whitespace, "+"), In(TokChars, "+")>>,
    Lit("HA_TOKEN") \o <<In(Whitespace, "*")>> \o Lit("="),
    Lit("RTSP_PASS") \o <<In(Whitespace, "*")>> \o Lit("="),
    Lit("rtsp://") \o <<NotIn(SlashOrSpace, "+")>> \o Lit(":")
        \o <<NotIn(SlashOrSpace, "+")>> \o Lit("@"),
    Lit("BEGIN") \o <<In(Whitespace, "+")>> \o Lit("PRIVATE")
        \o <<In(Whitespace, "+")>> \o Lit("KEY")
>>

match_any(patterns, text) == \E i \in DOMAIN patterns : re_match(patterns[i], text)

\* Defective variant: the allow rules are consulted first.
validate_path_allow_first(path) ==
    IF ~match_any(ALLOWLIST_PATTERNS, path) THEN "PathNotAllowed"
    ELSE IF match_any(DENYLIST_PATTERNS, path) THEN "PathDenied"
    ELSE "ok"

\* Defective variant: a path no rule matches is let through.
validate_path_default_allow(path) ==
    IF match_any(DENYLIST_PATTERNS, path) THEN "PathDenied" ELSE "ok"

\* The HTTPException _validate_path raises, or "ok".
validate_path(path) ==
    IF match_any(DENYLIST_PATTERNS, path) THEN "PathDenied"
    ELSE IF ~match_any(ALLOWLIST_PATTERNS, path) THEN "PathNotAllowed"
    ELSE "ok"

\* The HTTPException _validate_content raises, or "ok".
validate_content(path, content) ==
    IF \E i \in DOMAIN SECRET_CONTENT_PATTERNS :
           re_search_icase(SECRET_CONTENT_PATTERNS[i], content)
    THEN "SecretDetected"
    ELSE "ok"

(***************************************************************************)
(* Encoding: content.encode("utf-8"), base64.b64encode, base64.b64decode,  *)
(* bytes.decode("utf-8", errors="replace")                                 *)
(***************************************************************************)

Surrogates == 55296..57343
REPLACEMENT == 65533                     \* U+FFFD

\* The UTF-8 bytes of one code point.
Utf8Char(c) ==
    IF c < 128 THEN <<c>>
    ELSE IF c < 2048 THEN <<192 + (c \div 64), 128 + (c % 64)>>
    ELSE IF c < 65536
         THEN <<224 + (c \div 4096), 128 + ((c \div 64) % 64), 128 + (c % 64)>>
         ELSE <<240 + (c \div 262144), 128 + ((c \div 4096) % 64),
                128 + ((c \div 64) % 64), 128 + (c % 64)>>

\* str.encode("utf-8") raises UnicodeEncodeError on a lone surrogate.
Encodable(text) == \A i \in DOMAIN text : text[i] \notin Surrogates

RECURSIVE utf8_encode(_)
utf8_encode(text) ==
    IF text = <<>> THEN <<>> ELSE Utf8Char(Head(text)) \o utf8_encode(Tail(text))

\* The base64 alphabet: A-Z a-z 0-9 + /
B64Char(v) ==
    IF v < 26 THEN 65 + v
    ELSE IF v < 52 THEN 97 + (v - 26)
    ELSE IF v < 62 THEN 48 + (v - 52)
    ELSE IF v = 62 THEN 43 ELSE 47

B64Alphabet == {B64Char(v) : v \in 0..63}
B64Value(c) == CHOOSE v \in 0..63 : B64Char(v) = c
PAD == 61                                \* =
B64Error == <<-1>>

RECURSIVE b64encode(_)
b64encode(bytes) ==
    IF bytes = <<>> THEN <<>>
    ELSE IF Len(bytes) = 1
    THEN <<B64Char(bytes[1] \div 4), B64Char((bytes[1] % 4) * 16), PAD, PAD>>
    ELSE IF Len(bytes) = 2
    THEN <<B64Char(bytes[1] \div 4),
           B64Char((bytes[1] % 4) * 16 + (bytes[2] \div 16)),
           B64Char((bytes[2] % 16) * 4), PAD>>
    ELSE <<B64Char(bytes[1] \div 4),
           B64Char((bytes[1] % 4) * 16 + (bytes[2] \div 16)),
           B64Char((bytes[2] % 16) * 4 + (bytes[3] \div 64)),
           B64Char(bytes[3] % 64)>>
         \o b64encode(SubSeq(bytes, 4, Len(bytes)))

\* The bytes of a run of base64 digits (values), four digits to three bytes;
\* a final group of two or three digits gives one or two bytes.
RECURSIVE B64Bytes(_)
B64Bytes(v) ==
    IF Len(v) < 2 THEN <<>>
    ELSE IF Len(v) = 2 THEN <<v[1] * 4 + (v[2] \div 16)>>
    ELSE IF Len(v) = 3
    THEN <<v[1] * 4 + (v[2] \div 16), (v[2] % 16) * 16 + (v[3] \div 4)>>
    ELSE <<v[1] * 4 + (v[2] \div 16), (v[2] % 16) * 16 + (v[3] \div 4),
           (v[3] % 4) * 64 + v[4]>>
         \o B64Bytes(SubSeq(v, 5, Len(v)))

\* binascii.a2b_base64, not strict, scans left to right: a character outside
\* the alphabet is skipped; a padding character is skipped too, unless the
\* digits read so far leave a group of two or three open and the padding
\* characters since the last digit complete that group, which ends the scan.
\* B64Stop(s) is the position where the scan ends.
B64DigitsBefore(s, i) == Cardinality({j \in 1..(i - 1) : s[j] \in B64Alphabet})
B64PadsBefore(s, i) ==
    Cardinality({j \in 1..(i - 1) :
                    /\ s[j] = PAD
                    /\ \A k \in (j + 1)..(i - 1) : s[k] \notin B64Alphabet})
B64StopsAt(s, i) ==
    LET quad == B64DigitsBefore(s, i) % 4
    IN  s[i] = PAD /\ quad >= 2 /\ quad + B64PadsBefore(s, i) + 1 >= 4
B64Stop(s) ==
    IF \E i \in DOMAIN s : B64StopsAt(s, i)
    THEN CHOOSE i \in DOMAIN s : B64StopsAt(s, i) /\ \A j \in 1..(i - 1) : ~B64StopsAt(s, j)
    ELSE Len(s) + 1

\* base64.b64decode(s), validate=False.  B64Error stands for binascii.Error
\* (the input ends inside a group).
b64decode(s) ==
    LET digits == SelectSeq(SubSeq(s, 1, B64Stop(s) - 1), LAMBDA c : c \in B64Alphabet)
        vals == [i \in DOMAIN digits |-> B64Value(digits[i])]
    IN  IF B64Stop(s) > Len(s) /\ Len(digits) % 4 # 0 THEN B64Error
        ELSE B64Bytes(vals)

IsCont(b) == b \in 128..191

\* The allowed range of the second byte after lead byte b (a three- or
\* four-byte sequence): overlong forms, surrogates and code points above
\* U+10FFFF are invalid.
SecondOk(b, b2) ==
    CASE b = 224 -> b2 \in 160..191
      [] b = 237 -> b2 \in 128..159
      [] b = 240 -> b2 \in 144..191
      [] b = 244 -> b2 \in 128..143
      [] OTHER -> IsCont(b2)

\* The number of bytes of the sequence lead byte b starts, 0 when b starts none.
SeqLen(b) ==
    IF b < 128 THEN 1
    ELSE IF b \in 194..223 THEN 2
    ELSE IF b \in 224..239 THEN 3
    ELSE IF b \in 240..244 THEN 4
    ELSE 0

\* Defective variant: the bytes are decoded as ASCII.
ascii_decode_replace(bytes) ==
    [i \in DOMAIN bytes |-> IF bytes[i] < 128 THEN bytes[i] ELSE REPLACEMENT]

\* bytes.decode("utf-8", errors="replace"): each maximal invalid part becomes
\* U+FFFD.
RECURSIVE utf8_decode_replace(_)
utf8_decode_replace(bytes) ==
    IF bytes = <<>> THEN <<>>
    ELSE LET b == bytes[1]
             n == SeqLen(b)
             have == Len(bytes)
             rest(k) == utf8_decode_replace(SubSeq(bytes, k + 1, have))
         IN  IF n = 1 THEN <<b>> \o rest(1)
             ELSE IF n = 0 THEN <<REPLACEMENT>> \o rest(1)
             ELSE IF have < 2 \/ ~SecondOk(b, bytes[2]) THEN <<REPLACEMENT>> \o rest(1)
             ELSE IF n = 2 THEN <<(b - 192) * 64 + (bytes[2] - 128)>> \o rest(2)
             ELSE IF have < 3 \/ ~IsCont(bytes[3]) THEN <<REPLACEMENT>> \o rest(2)
             ELSE IF n = 3
             THEN <<(b - 224) * 4096 + (bytes[2] - 128) * 64 + (bytes[3] - 128)>>
                  \o rest(3)
             ELSE IF have < 4 \/ ~IsCont(bytes[4]) THEN <<REPLACEMENT>> \o rest(3)
             ELSE <<(b - 240) * 262144 + (bytes[2] - 128) * 4096
                    + (bytes[3] - 128) * 64 + (bytes[4] - 128)>> \o rest(4)

(***************************************************************************)
(* hashlib.sha256 (FIPS 180-4) and hmac (RFC 2104) on sequences of bytes.  *)
(* A 32-bit word is a pair <<high half, low half>> of numbers 0 .. 65535.  *)
(***************************************************************************)

Bit(x, i) == (x \div 2^i) % 2
RECURSIVE BitsToInt(_, _, _, _)
\* The number whose bit i - base is f[i], for i in lo .. hi.
BitsToInt(f, lo, hi, base) ==
    IF lo = hi THEN f[lo] * 2^(lo - base)
    ELSE LET mid == (lo + hi) \div 2
         IN  BitsToInt(f, lo, mid, base) + BitsToInt(f, mid + 1, hi, base)
\* The bits of a word, bit 0 the least significant, and the word of 32 bits.
Bits(w) == [i \in 0..31 |-> IF i < 16 THEN Bit(w[2], i) ELSE Bit(w[1], i - 16)]
Word(f) == <<BitsToInt(f, 16, 31, 16), BitsToInt(f, 0, 15, 0)>>
Rotr(b, n) == [i \in 0..31 |-> b[(i + n) % 32]]
Xor3(a, b, c) == Word([i \in 0..31 |-> (a[i] + b[i] + c[i]) % 2])
\* Addition modulo 2^32.
Add(x, y) ==
    LET lo == x[2] + y[2]
    IN  <<(x[1] + y[1] + lo \div 65536) % 65536, lo % 65536>>

ShaK ==
    <<
      <<17034, 12184>>, <<28983, 17553>>, <<46528, 64463>>, <<59829, 56229>>,
      <<14678, 49755>>, <<23025, 4593>>, <<37439, 33444>>, <<43804, 24277>>,
      <<55303, 43672>>, <<4739, 23297>>, <<9265, 34238>>, <<21772, 32195>>,
      <<29374, 23924>>, <<32990, 45566>>, <<39900, 1703>>, <<49563, 61812>>,
      <<58523, 27073>>, <<61374, 18310>>, <<4033, 40390>>, <<9228, 41420>>,
      <<11753, 11375>>, <<19060, 33962>>, <<23728, 43484>>, <<30457, 35034>>,
      <<38974, 20818>>, <<43057, 50797>>, <<45059, 10184>>, <<48985, 32711>>,
      <<50912, 3059>>, <<54695, 37191>>, <<1738, 25425>>, <<5161, 10599>>,
      <<10167, 2693>>, <<11803, 8504>>, <<19756, 28156>>, <<21304, 3347>>,
      <<25866, 29524>>, <<30314, 2747>>, <<33218, 51502>>, <<37490, 11397>>,
      <<41663, 59553>>, <<43034, 26187>>, <<49739, 35696>>, <<51052, 20899>>,
      <<53650, 59417>>, <<54937, 1572>>, <<62478, 13701>>, <<4202, 41072>>,
      <<6564, 49430>>, <<7735, 27656>>, <<10056, 30540>>, <<13488, 48309>>,
      <<14620, 3251>>, <<20184, 43594>>, <<23452, 51791>>, <<26670, 28659>>,
      <<29839, 33518>>, <<30885, 25455>>, <<33992, 30740>>, <<36039, 520>>,
      <<37054, 65530>>, <<42064, 27883>>, <<48889, 41975>>, <<50801, 30962>>
    >>
ShaH0 ==
    <<
      <<27145, 58983>>, <<47975, 44677>>, <<15470, 62322>>, <<42319, 62778>>,
      <<20750, 21119>>, <<39685, 26764>>, <<8067, 55723>>, <<23520, 52505>>
    >>

\* The message schedule, extended from the 16 words of a block up to n words.
RECURSIVE ShaSchedule(_, _)
ShaSchedule(W, n) ==
    LET Shr(b, k) == [i \in 0..31 |-> IF i + k < 32 THEN b[i + k] ELSE 0]
        SmallSigma0(b) == Xor3(Rotr(b, 7), Rotr(b, 18), Shr(b, 3))
        SmallSigma1(b) == Xor3(Rotr(b, 17), Rotr(b, 19), Shr(b, 10))
        Extend(t) == Append(W, Add(Add(SmallSigma1(Bits(W[t - 2])), W[t - 7]),
                                   Add(SmallSigma0(Bits(W[t - 15])), W[t - 16])))
    IN  IF Len(W) >= n THEN W ELSE ShaSchedule(Extend(Len(W) + 1), n)
\* Rounds t .. n of the compression function on the working variables st.
RECURSIVE ShaRounds(_, _, _, _)
ShaRounds(st, W, t, n) ==
    LET ShaCh(e, f, g) == Word([i \in 0..31 |-> IF e[i] = 1 THEN f[i] ELSE g[i]])
        ShaMaj(a, b, c) == Word([i \in 0..31 |-> IF a[i] + b[i] + c[i] >= 2 THEN 1 ELSE 0])
        BigSigma0(b) == Xor3(Rotr(b, 2), Rotr(b, 13), Rotr(b, 22))
        BigSigma1(b) == Xor3(Rotr(b, 6), Rotr(b, 11), Rotr(b, 25))
        T1(e) == Add(Add(Add(st[8], BigSigma1(e)),
                         Add(ShaCh(e, Bits(st[6]), Bits(st[7])), ShaK[t])), W[t])
        T2(a) == Add(BigSigma0(a), ShaMaj(a, Bits(st[2]), Bits(st[3])))
        Round(t1, t2) ==
            <<Add(t1, t2), st[1], st[2], st[3], Add(st[4], t1), st[5], st[6], st[7]>>
    IN  IF Len(st) # 8 \/ t > n THEN st
        ELSE ShaRounds(Round(T1(Bits(st[5])), T2(Bits(st[1]))), W, t + 1, n)
ShaCompress(H, block) ==
    LET Sum(st) ==
            <<Add(H[1], st[1]), Add(H[2], st[2]), Add(H[3], st[3]), Add(H[4], st[4]),
              Add(H[5], st[5]), Add(H[6], st[6]), Add(H[7], st[7]), Add(H[8], st[8])>>
    IN  Sum(ShaRounds(H, ShaSchedule(block, 64), 1, 64))
Zeros(n) == [i \in 1..n |-> 0]
RECURSIVE ShaBlocks(_, _)
ShaBlocks(H, words) ==
    IF words = <<>> THEN H
    ELSE ShaBlocks(ShaCompress(H, SubSeq(words, 1, 16)), SubSeq(words, 17, Len(words)))
\* The message is padded with 0x80, zeros and its length in bits on 8 bytes,
\* cut into big-endian words and compressed block by block.
sha256(msg) ==
    LET Padded(bits) ==
            msg \o <<128>> \o Zeros((119 - (Len(msg) % 64)) % 64)
            \o [i \in 1..8 |-> IF i <= 4 THEN 0 ELSE (bits \div 2^(8 * (8 - i))) % 256]
        Words(bytes) ==
            [i \in 1..(Len(bytes) \div 4) |->
                <<bytes[4*i - 3] * 256 + bytes[4*i - 2],
                  bytes[4*i - 1] * 256 + bytes[4*i]>>]
        Digest(H) ==
            [i \in 1..32 |->
                LET half == H[(i + 3) \div 4][IF (i - 1) % 4 < 2 THEN 1 ELSE 2]
                IN  IF i % 2 = 1 THEN half \div 256 ELSE half % 256]
    IN  Digest(ShaBlocks(ShaH0, Words(Padded(8 * Len(msg)))))

\* hmac.new(key, msg, hashlib.sha256).digest(): the block size is 64 bytes.
hmac_sha256(key, msg) ==
    LET XorBytes(bytes, pad) ==
            [i \in DOMAIN bytes |->
                BitsToInt([j \in 0..7 |-> (Bit(bytes[i], j) + Bit(pad, j)) % 2], 0, 7, 0)]
        Fill(k0) == k0 \o Zeros(64 - Len(k0))
        Mac(k) == sha256(XorBytes(k, 92) \o sha256(XorBytes(k, 54) \o msg))
    IN  Mac(Fill(IF Len(key) > 64 THEN sha256(key) ELSE key))
\* .hexdigest(): two lower-case hexadecimal digits per byte.
HexDigits == Str("0123456789abcdef")
hexdigest(bytes) ==
    [i \in 1..(2 * Len(bytes)) |->
        LET b == bytes[(i + 1) \div 2]
        IN  HexDigits[(IF i % 2 = 1 THEN b \div 16 ELSE b % 16) + 1]]

(***************************************************************************)
(* Configuration (/data/options.json) and the inputs the model draws       *)
(***************************************************************************)

API_KEY == "s3cret"
BASE_BRANCH == "main"
PR_LABEL == "ai-change"

\* x_api_key: Optional[str] is a set with at most one element; {} is None.
None == {}
Keys == {None, {""}, {"wrong"}, {API_KEY}}

BranchNames == {BASE_BRANCH, "feat"}

CONFIG == Str("configuration.yaml")
PKG == Str("packages/lights.yaml")
SCENES == Str("scenes.yaml")
DENIED == Str("secrets.env")
UNLISTED == Str("README.md")
ReadPaths == {CONFIG, PKG, SCENES, DENIED, UNLISTED}

\* Contents: plain ASCII; text with two-, three- and four-byte characters,
\* longer than one line of base64; a private key header; a lone surrogate.
PLAIN == Str("a: 1\n")
WIDE ==
    Str("alias: ") \o <<127, 128, 233, 2047, 2048, 8364, 65533, 65535, 65536, 128512, 1114111>>
    \o Str(" # 0123456789 0123456789\r\n")
EMPTY == <<>>
SECRET == Str("-----begin private key-----")
SURROGATE == <<120, 55296>>

Change(path, content) == [path |-> path, content |-> content]
Changes == {Change(CONFIG, PLAIN), Change(CONFIG, WIDE), Change(CONFIG, EMPTY),
            Change(PKG, PLAIN),
            Change(PKG, SURROGATE), Change(DENIED, PLAIN), Change(UNLISTED, WIDE),
            Change(PKG, SECRET)}

\* The longest change list of a request.
MaxChanges == 2
Batches == UNION {[1..n -> Changes] : n \in 0..MaxChanges}

\* The change lists offered while two requests are served at once.
ConcurrentBatches ==
    UNION {[1..n -> {Change(CONFIG, PLAIN), Change(PKG, PLAIN)}] : n \in 0..MaxChanges}

Reqs == {1, 2}

(***************************************************************************)
(* State                                                                   *)
(***************************************************************************)

VARIABLES
    slots,      \* the requests that may be in flight at once
    pc,         \* per request: where its handler stands
    req,        \* per request: the request being served
    loc,        \* per request: the handler's local variables
    resp,       \* per request: the response, once the handler has ended
    calls,      \* per request: the forge calls it has issued, in order
    refs,       \* forge: branch name -> tree (path -> file bytes)
    prs,        \* forge: the pull requests, by number
    applied,    \* history: branch -> what the apply that succeeded on it upserted
                \*          (path -> content), in a set; {} when none succeeded
    pol,        \* the policy engine applied to one path and content
    hook        \* the webhook receiver: its secret, its request and its answer

handler_vars == <<pc, req, loc, resp, calls>>
forge_vars == <<refs, prs>>
vars == <<slots, pc, req, loc, resp, calls, refs, prs, applied, pol, hook>>

NoReq == [op |-> "none"]
NoSha == <<>>
NoLoc == [i |-> 0, sha |-> NoSha, file_sha |-> NoSha, pr_number |-> 0, seen |-> {}]
NoResp == [status |-> 0]

\* HTTP responses of the bridge.
OK == [status |-> 200, detail |-> "ok", body |-> <<>>]
Response(body) == [status |-> 200, detail |-> "ok", body |-> body]
HTTPException(status, detail, about) == [status |-> status, detail |-> detail, body |-> about]
\* An exception that is no HTTPException: the framework answers 500.
InternalServerError(what) ==
    [status |-> 500, detail |-> "Internal Server Error", body |-> what]

BaseTree == (CONFIG :> utf8_encode(Str("homeassistant:\n"))) @@ (SCENES :> <<255, 97, 226, 130>>)

PolOff == [stage |-> "off"]
HookOff == [stage |-> "off"]

Init ==
    /\ slots = {1}
    /\ pc = [r \in Reqs |-> "idle"]
    /\ req = [r \in Reqs |-> NoReq]
    /\ loc = [r \in Reqs |-> NoLoc]
    /\ resp = [r \in Reqs |-> NoResp]
    /\ calls = [r \in Reqs |-> <<>>]
    /\ refs = (BASE_BRANCH :> BaseTree)
    /\ prs = <<>>
    /\ applied = [b \in BranchNames |-> {}]
    /\ pol = PolOff
    /\ hook = HookOff

(***************************************************************************)
(* The forge (GitHub REST API), as the bridge calls it                     *)
(***************************************************************************)

\* What a round trip can come to: the forge serves the call, the forge answers
\* with an error status without serving it, or no response arrives in 30 s.
Outcomes == {"served", "error", "timeout"}
NoResponse == [status |-> -1]
Answer(out, served) ==
    CASE out = "served" -> served
      [] out = "error" -> [status |-> 500]
      [] OTHER -> NoResponse

\* The hash the forge reports for a file: a token that identifies its bytes.
BlobSha(bytes) == <<"blob", bytes>>

\* The forge returns file content as base64 in lines of 60 characters.
RECURSIVE Wrap60(_)
Wrap60(s) ==
    IF s = <<>> THEN <<>>
    ELSE IF Len(s) <= 60 THEN s \o NL
    ELSE SubSeq(s, 1, 60) \o NL \o Wrap60(SubSeq(s, 61, Len(s)))

\* GET /repos/{owner}/{repo}/git/ref/heads/{branch}; the commit is its tree.
ForgeGetRef(branch) ==
    IF branch \in DOMAIN refs THEN [status |-> 200, sha |-> refs[branch]]
    ELSE [status |-> 404]

\* POST /repos/{owner}/{repo}/git/refs: a ref is created once.
ForgePostRefStatus(new_branch) == IF new_branch \in DOMAIN refs THEN 422 ELSE 201
ForgePostRef(new_branch, sha) ==
    IF new_branch \in DOMAIN refs THEN refs ELSE (new_branch :> sha) @@ refs

\* GET /repos/{owner}/{repo}/contents/{path}?ref={ref}
ForgeGetContents(path, ref) ==
    IF ref \in DOMAIN refs /\ path \in DOMAIN refs[ref]
    THEN [status |-> 200, sha |-> BlobSha(refs[ref][path]),
          content |-> Wrap60(b64encode(refs[ref][path]))]
    ELSE [status |-> 404]

\* PUT /repos/{owner}/{repo}/contents/{path}: an update must carry the hash
\* of the file it replaces, a creation carries none.
ForgePutStatus(path, branch, content, sha) ==
    IF branch \notin DOMAIN refs THEN 404
    ELSE IF b64decode(content) = B64Error THEN 422
    ELSE IF path \in DOMAIN refs[branch]
    THEN (IF sha = NoSha THEN 422
          ELSE IF sha = BlobSha(refs[branch][path]) THEN 200 ELSE 409)
    ELSE (IF sha = NoSha THEN 201 ELSE 422)
ForgePut(path, branch, content, sha) ==
    IF ForgePutStatus(path, branch, content, sha) \in {200, 201}
    THEN [refs EXCEPT ![branch] = (path :> b64decode(content)) @@ refs[branch]]
    ELSE refs

\* POST /repos/{owner}/{repo}/pulls
ForgePostPullStatus(head, base) ==
    IF head \notin DOMAIN refs \/ base \notin DOMAIN refs \/ head = base THEN 422
    ELSE IF \E n \in DOMAIN prs : prs[n].head = head /\ prs[n].base = base THEN 422
    ELSE 201
ForgePostPull(head, base, title, body) ==
    IF ForgePostPullStatus(head, base) = 201
    THEN Append(prs, [head |-> head, base |-> base, labels |-> {}])
    ELSE prs
PrUrl(n) == <<"pull", n>>

\* POST /repos/{owner}/{repo}/issues/{number}/labels
ForgePostLabelsStatus(number) == IF number \in DOMAIN prs THEN 200 ELSE 404
ForgePostLabels(number, label) ==
    IF number \in DOMAIN prs
    THEN [prs EXCEPT ![number].labels = @ \cup {label}]
    ELSE prs

(***************************************************************************)
(* Handlers                                                                *)
(***************************************************************************)

\* Defective variant: the key is not compared, only required.
auth_any_key(x_api_key) ==
    IF x_api_key = None \/ x_api_key = {""}
    THEN HTTPException(401, "Unauthorized", <<>>)
    ELSE OK

\* _auth
auth(x_api_key) ==
    IF x_api_key = None \/ x_api_key = {""} \/ x_api_key # {API_KEY}
    THEN HTTPException(401, "Unauthorized", <<>>)
    ELSE OK

\* _validate_path(ch.path); _validate_content(ch.path, ch.content)
validate_change(ch) ==
    LET p == validate_path(ch.path)
        c == validate_content(ch.path, ch.content)
    IN  IF p # "ok" THEN HTTPException(400, p, ch.path)
        ELSE IF c # "ok" THEN HTTPException(400, c, ch.path)
        ELSE OK

\* Defective variant: only the first change is validated before the branch is created.
validate_head_only(changes) ==
    IF changes = <<>> THEN OK ELSE validate_change(Head(changes))

\* for ch in req.changes: validate: the first failure is raised.
RECURSIVE validate_all(_)
validate_all(changes) ==
    IF changes = <<>> THEN OK
    ELSE LET e == validate_change(Head(changes))
         IN  IF e.status # 200 THEN e ELSE validate_all(Tail(changes))

\* apply, up to the first forge call.
apply_checks(rq) ==
    LET e == auth(rq.x_api_key)
    IN  IF e.status # 200 THEN e ELSE validate_all(rq.changes)

\* Defective variant: get_file authenticates and fetches, without _validate_path.
get_file_checks_auth_only(rq) == auth(rq.x_api_key)

\* get_file, up to the forge call.
get_file_checks(rq) ==
    LET e == auth(rq.x_api_key)
        p == validate_path(rq.path)
    IN  IF e.status # 200 THEN e
        ELSE IF p # "ok" THEN HTTPException(400, p, rq.path)
        ELSE OK

\* Defective variant: the forge's "already exists" (422) is not taken as a failure.
gh_ignore_conflict(res) ==
    IF res.status = NoResponse.status THEN InternalServerError("requests exception")
    ELSE IF res.status >= 400 /\ res.status # 422
    THEN HTTPException(502, "GitHub error", res.status)
    ELSE OK

\* gh: what it raises for the result of requests.request, OK when it returns.
gh(res) ==
    IF res.status = NoResponse.status THEN InternalServerError("requests exception")
    ELSE IF res.status >= 400 THEN HTTPException(502, "GitHub error", res.status)
    ELSE OK

\* Defective variant: every answered lookup is taken as found or absent.
lookup_any_status(res) ==
    IF res.status = NoResponse.status THEN InternalServerError("requests exception")
    ELSE OK

\* The lookup of upsert_file: requests.get, then the status is examined.
lookup(res) ==
    IF res.status = NoResponse.status THEN InternalServerError("requests exception")
    ELSE IF res.status = 200 \/ res.status = 404 THEN OK
    ELSE HTTPException(502, "GitHub error", res.status)

\* Defective variant: the exception of add_label leaves the handler.
no_try_except(e) == e

\* try: add_label(...) except Exception: pass
try_except_pass(e) == OK

\* The handler ends: the response goes to the caller.
Return(r, e) ==
    /\ resp' = [resp EXCEPT ![r] = e]
    /\ pc' = [pc EXCEPT ![r] = "done"]

\* Defective variant: an apply that fails after creating its branch deletes the branch.
RaiseAndCleanUp(r, e) ==
    /\ Return(r, e)
    /\ refs' = IF /\ req[r].op = "apply"
                  /\ \E n \in DOMAIN calls[r] :
                        calls[r][n].op = "POST refs" /\ calls[r][n].status = 201
               THEN [b \in DOMAIN refs \ {req[r].branch_name} |-> refs[b]]
               ELSE refs
    /\ UNCHANGED prs

\* Defective variant: after a forge error (502) the step is attempted again.
RetryOnForgeError(r, e) ==
    /\ IF e.status = 502 THEN UNCHANGED <<pc, resp>> ELSE Return(r, e)
    /\ UNCHANGED forge_vars

\* An exception leaves the handler: nothing is undone on the forge.
Raise(r, e) ==
    /\ Return(r, e)
    /\ UNCHANGED forge_vars

Issue(r, call) == calls' = [calls EXCEPT ![r] = Append(@, call)]
Goto(r, label) == pc' = [pc EXCEPT ![r] = label]

\* The requests offered: every key and change list when one request is served
\* at a time; authorised requests with valid changes when two are.
KeysOffered == IF Cardinality(slots) > 1 THEN {{API_KEY}} ELSE Keys
BatchesOffered == IF Cardinality(slots) > 1 THEN ConcurrentBatches ELSE Batches

\* POST /repo/apply arrives: _auth, then the validation of every change.
apply_start(r) ==
    /\ r \in slots /\ pc[r] = "idle"
    /\ \E key \in KeysOffered, b \in BranchNames, chs \in BatchesOffered :
         LET rq == [op |-> "apply", x_api_key |-> key, branch_name |-> b, changes |-> chs]
             e == apply_checks(rq)
         IN  /\ req' = [req EXCEPT ![r] = rq]
             /\ IF e.status # 200
                THEN Raise(r, e)
                ELSE Goto(r, "get_ref_sha") /\ UNCHANGED <<resp, forge_vars>>
    /\ UNCHANGED <<slots, loc, calls, applied, pol, hook>>

\* create_branch: sha = get_ref_sha(from_branch)
get_ref_sha(r) ==
    /\ pc[r] = "get_ref_sha"
    /\ \E out \in Outcomes :
         LET res == Answer(out, ForgeGetRef(BASE_BRANCH))
         IN  /\ Issue(r, [op |-> "GET ref", status |-> res.status])
             /\ IF gh(res).status # 200
                THEN Raise(r, gh(res)) /\ UNCHANGED loc
                ELSE /\ Goto(r, "create_ref")
                     /\ loc' = [loc EXCEPT ![r].sha = res.sha]
                     /\ UNCHANGED <<resp, forge_vars>>
    /\ UNCHANGED <<slots, req, applied, pol, hook>>

\* Defective variant: the PR is opened right after the branch is created.
pr_after_create_branch(r) == "open_pr"

\* After create_branch: the upsert loop, or open_pr when there is no change.
after_create_branch(r) == IF req[r].changes = <<>> THEN "open_pr" ELSE "upsert_get"

\* create_branch: POST the new ref; then the first upsert, or the PR.
create_branch(r) ==
    /\ pc[r] = "create_ref"
    /\ \E out \in Outcomes :
         LET res == Answer(out, [status |-> ForgePostRefStatus(req[r].branch_name)])
         IN  /\ Issue(r, [op |-> "POST refs", status |-> res.status])
             /\ IF gh(res).status # 200
                THEN Raise(r, gh(res)) /\ UNCHANGED loc
                ELSE /\ refs' = ForgePostRef(req[r].branch_name, loc[r].sha)
                     /\ Goto(r, after_create_branch(r))
                     /\ loc' = [loc EXCEPT ![r].i = 1]
                     /\ UNCHANGED <<resp, prs>>
    /\ UNCHANGED <<slots, req, applied, pol, hook>>

\* Defective variant: the loop takes the changes from the last to the first.
ch_reversed(r) == req[r].changes[Len(req[r].changes) + 1 - loc[r].i]

\* The change the upsert loop stands at.
ch(r) == req[r].changes[loc[r].i]

\* Defective variant: the files are upserted on the base branch.
upsert_on_base(r) == BASE_BRANCH

\* The branch upsert_file is called with: req.branch_name.
upsert_branch(r) == req[r].branch_name

\* Defective variant: the hash found by the lookup is dropped.
sha_never(res) == NoSha

\* sha = None; if r.status_code == 200: sha = r.json().get("sha")
sha_of_lookup(res) == IF res.status = 200 THEN res.sha ELSE NoSha

\* upsert_file: the lookup of the file on the branch (read before write).
upsert_file_get(r) ==
    /\ pc[r] = "upsert_get"
    /\ \E out \in Outcomes :
         LET res == Answer(out, ForgeGetContents(ch(r).path, upsert_branch(r)))
         IN  /\ Issue(r, [op |-> "GET contents", status |-> res.status, i |-> loc[r].i,
                          path |-> ch(r).path, ref |-> upsert_branch(r),
                          sha |-> IF res.status = 200 THEN res.sha ELSE NoSha])
             /\ IF lookup(res).status # 200
                THEN Raise(r, lookup(res)) /\ UNCHANGED loc
                ELSE /\ Goto(r, "upsert_put")
                     /\ loc' = [loc EXCEPT ![r].file_sha = sha_of_lookup(res)]
                     /\ UNCHANGED <<resp, forge_vars>>
    /\ UNCHANGED <<slots, req, applied, pol, hook>>

\* Defective variant: the upsert loop ends after the first change.
after_first_upsert(r) == "open_pr"

\* for ch in req.changes: after the upsert of one change comes the next change,
\* or open_pr when it was the last.
after_upsert(r) == IF loc[r].i = Len(req[r].changes) THEN "open_pr" ELSE "upsert_get"

\* upsert_file: the payload is encoded and PUT; then the next change, or the PR.
upsert_file_put(r) ==
    /\ pc[r] = "upsert_put"
    /\ IF ~Encodable(ch(r).content)
       THEN Raise(r, InternalServerError("UnicodeEncodeError")) /\ UNCHANGED <<loc, calls>>
       ELSE \E out \in Outcomes :
              LET content == b64encode(utf8_encode(ch(r).content))
                  sha == loc[r].file_sha
                  branch == upsert_branch(r)
                  res == Answer(out, [status |->
                             ForgePutStatus(ch(r).path, branch, content, sha)])
              IN  /\ Issue(r, [op |-> "PUT contents", status |-> res.status,
                               i |-> loc[r].i, path |-> ch(r).path, ref |-> branch,
                               sha |-> sha])
                  /\ IF gh(res).status # 200
                     THEN Raise(r, gh(res)) /\ UNCHANGED loc
                     ELSE /\ refs' = ForgePut(ch(r).path, branch, content, sha)
                          /\ Goto(r, after_upsert(r))
                          /\ loc' = [loc EXCEPT ![r].i = @ + 1, ![r].file_sha = NoSha]
                          /\ UNCHANGED <<resp, prs>>
    /\ UNCHANGED <<slots, req, applied, pol, hook>>

\* open_pr(BASE_BRANCH, req.branch_name, ...); pr["number"], pr["html_url"]
open_pr(r) ==
    /\ pc[r] = "open_pr"
    /\ \E out \in Outcomes :
         LET res == Answer(out, [status |->
                        ForgePostPullStatus(req[r].branch_name, BASE_BRANCH)])
         IN  /\ Issue(r, [op |-> "POST pulls", status |-> res.status])
             /\ IF gh(res).status # 200
                THEN Raise(r, gh(res)) /\ UNCHANGED loc
                ELSE /\ prs' = ForgePostPull(req[r].branch_name, BASE_BRANCH, <<>>, <<>>)
                     /\ Goto(r, "add_label")
                     /\ loc' = [loc EXCEPT ![r].pr_number = Len(prs) + 1]
                     /\ UNCHANGED <<resp, refs>>
    /\ UNCHANGED <<slots, req, applied, pol, hook>>

\* What a change list leaves at each path it names: the content of the last
\* change that names the path.
LastChange(batch, path) ==
    batch[CHOOSE k \in DOMAIN batch :
              /\ batch[k].path = path
              /\ \A j \in DOMAIN batch : batch[j].path = path => j <= k]
Upserted(batch) ==
    [path \in {batch[k].path : k \in DOMAIN batch} |-> LastChange(batch, path).content]

\* add_label inside try/except, then the ApplyChangeResponse.
add_label(r) ==
    /\ pc[r] = "add_label"
    /\ \E out \in Outcomes :
         LET res == Answer(out, [status |-> ForgePostLabelsStatus(loc[r].pr_number)])
             e == try_except_pass(gh(res))
         IN  /\ Issue(r, [op |-> "POST labels", status |-> res.status])
             /\ prs' = IF out = "served" THEN ForgePostLabels(loc[r].pr_number, PR_LABEL)
                       ELSE prs
             /\ UNCHANGED refs
             /\ IF e.status # 200
                THEN Return(r, e) /\ UNCHANGED applied
                ELSE /\ Return(r, Response([head_branch |-> req[r].branch_name,
                                            pr_number |-> loc[r].pr_number,
                                            pr_url |-> PrUrl(loc[r].pr_number)]))
                     /\ applied' = [applied EXCEPT ![req[r].branch_name] =
                                          {Upserted(req[r].changes)}]
    /\ UNCHANGED <<slots, req, loc, pol, hook>>

\* GET /repo/file arrives: _auth, then _validate_path.
get_file_start(r) ==
    /\ r \in slots /\ pc[r] = "idle"
    /\ \E key \in Keys, path \in ReadPaths, ref \in BranchNames :
         LET rq == [op |-> "get_file", x_api_key |-> key, path |-> path, ref |-> ref]
             e == get_file_checks(rq)
         IN  /\ req' = [req EXCEPT ![r] = rq]
             /\ IF e.status # 200
                THEN Raise(r, e)
                ELSE Goto(r, "get_contents") /\ UNCHANGED <<resp, forge_vars>>
    /\ UNCHANGED <<slots, loc, calls, applied, pol, hook>>

\* get_file: the file is fetched, its content decoded and returned.
get_file(r) ==
    /\ pc[r] = "get_contents"
    /\ \E out \in Outcomes :
         LET res == Answer(out, ForgeGetContents(req[r].path, req[r].ref))
             bytes == b64decode(res.content)
         IN  /\ Issue(r, [op |-> "GET contents", status |-> res.status, i |-> 0,
                          path |-> req[r].path, ref |-> req[r].ref,
                          sha |-> IF res.status = 200 THEN res.sha ELSE NoSha])
             /\ loc' = [loc EXCEPT ![r].seen = applied[req[r].ref]]
             /\ IF gh(res).status # 200 THEN Raise(r, gh(res))
                ELSE IF bytes = B64Error THEN Raise(r, InternalServerError("binascii.Error"))
                ELSE Raise(r, Response([path |-> req[r].path, ref |-> req[r].ref,
                                        content |-> utf8_decode_replace(bytes)]))
    /\ UNCHANGED <<slots, req, applied, pol, hook>>

\* The response has been sent: the request and its locals are gone.
Finish(r) ==
    /\ pc[r] = "done"
    /\ pc' = [pc EXCEPT ![r] = "idle"]
    /\ req' = [req EXCEPT ![r] = NoReq]
    /\ loc' = [loc EXCEPT ![r] = NoLoc]
    /\ resp' = [resp EXCEPT ![r] = NoResp]
    /\ calls' = [calls EXCEPT ![r] = <<>>]
    /\ UNCHANGED <<slots, forge_vars, applied, pol, hook>>

Next ==
    \E r \in Reqs :
        \/ apply_start(r)
        \/ get_ref_sha(r)
        \/ create_branch(r)
        \/ upsert_file_get(r)
        \/ upsert_file_put(r)
        \/ open_pr(r)
        \/ add_label(r)
        \/ get_file_start(r)
        \/ get_file(r)
        \/ Finish(r)

Spec == Init /\ [][Next]_vars

\* One step of the handler that serves request r: a forge round trip, which
\* returns or times out after 30 s, and the code that follows it.
handler_step(r) ==
    \/ get_ref_sha(r)
    \/ create_branch(r)
    \/ upsert_file_get(r)
    \/ upsert_file_put(r)
    \/ open_pr(r)
    \/ add_label(r)
    \/ get_file(r)

\* Request r is between its first forge call and its answer.
Running(r) == pc[r] \notin {"idle", "done"}

\* The thread of a running request keeps running: weak fairness of
\* handler_step(r), written with what ENABLED <<handler_step(r)>>_vars and
\* <<handler_step(r)>>_vars come to: a step is enabled exactly while the
\* request is running, and the steps of r are those that move pc[r] then.
handler_runs(r) ==
    []<>(~Running(r)) \/ []<><<Running(r) /\ pc'[r] # pc[r]>>_vars

\* The handlers under the scheduling of the server: a handler that has started
\* runs on to its answer, and an answer is sent.
LiveSpec ==
    Init /\ [][Next]_vars /\ \A r \in Reqs : handler_runs(r) /\ WF_vars(Finish(r))

\* Two apply requests served at once by the server's thread pool, each once;
\* their forge round trips interleave in any order.
ConcurrentInit ==
    /\ slots = {1, 2}
    /\ pc = [r \in Reqs |-> "idle"]
    /\ req = [r \in Reqs |-> NoReq]
    /\ loc = [r \in Reqs |-> NoLoc]
    /\ resp = [r \in Reqs |-> NoResp]
    /\ calls = [r \in Reqs |-> <<>>]
    /\ refs = (BASE_BRANCH :> BaseTree)
    /\ prs = <<>>
    /\ applied = [b \in BranchNames |-> {}]
    /\ pol = PolOff
    /\ hook = HookOff

ConcurrentNext ==
    \E r \in Reqs :
        \/ apply_start(r)
        \/ get_ref_sha(r)
        \/ create_branch(r)
        \/ upsert_file_get(r)
        \/ upsert_file_put(r)
        \/ open_pr(r)
        \/ add_label(r)

ConcurrentSpec == ConcurrentInit /\ [][ConcurrentNext]_vars

(***************************************************************************)
(* The policy engine on its own: one path and one content, drawn from a    *)
(* wider universe, each validated once                                     *)
(***************************************************************************)

PolicyPrefixes == {"", ".ssh/", "packages/", "bin/", "dir/"}
PolicyStems == {"", "configuration", "automations", "scripts", "scenes", "go2rtc",
                "ha_git_pull", "a", "a/b-c_D9", "a.b", "a b", ".optionb_env",
                ".go2rtc_env", "Configuration"}
PolicySuffixes == {"", ".yaml", ".yml", ".yaml.tpl", ".key", ".pem", ".env", ".sh",
                   ".yaml\n", ".env\n", ".yaml.key", ".YAML"}
PolicyPaths ==
    {Str(a) \o Str(b) \o Str(c) :
        a \in PolicyPrefixes, b \in PolicyStems, c \in PolicySuffixes}

PolicyBefore == {"", "x: 1\n-----"}
PolicyCores == {"", "a: 1", "BEGIN PRIVATE KEY", "begin private key", "Begin pRIVATE Key",
                "BEGIN  PRIVATE\tKEY", "BEGIN\nPRIVATE\nKEY", "BEGINPRIVATEKEY",
                "BEGIN RSA PRIVATE KEY", "BEGIN PRIVATE", "PRIVATE KEY",
                "Authorization: Bearer abc.DEF-1_2", "authorization: bearer x",
                "AUTHORIZATION:\tBEARER \n tok", "Authorization:Bearer t",
                "Authorization: Bearer ", "Authorization: Bearer", "Authorization: Bearer /+",
                "Authorization: Basic abc", "Authorization Bearer abc", "Bearer abc",
                "HA_TOKEN=", "ha_token \t= 1", "HA_TOKEN", "RTSP_PASS=", "rtsp_pass =x",
                "rtsp://user:pw@cam", "rtsp://cam:554/stream", "rtsp://us er:pw@cam"}
PolicyAfter == {"", "-----\n"}
PolicyContents ==
    {Str(a) \o Str(b) \o Str(c) :
        a \in PolicyBefore, b \in PolicyCores, c \in PolicyAfter}
    \cup {<<8490, 69, 89>>, Str("BEGIN PRIVATE ") \o <<8490, 69, 89>>,
          Str("BEG") \o <<304>> \o Str("N PR") \o <<305>> \o Str("VATE KEY"),
          Str("BEGIN") \o <<160>> \o Str("PRIVATE") \o <<160>> \o Str("KEY")}

\* Every path with a few contents, and every content with a few paths.
PolicyInputs ==
    (PolicyPaths \X {PLAIN, WIDE, SECRET})
    \cup ({CONFIG, PKG, DENIED, UNLISTED} \X PolicyContents)

PolicyInit ==
    /\ slots = {}
    /\ pc = [r \in Reqs |-> "idle"]
    /\ req = [r \in Reqs |-> NoReq]
    /\ loc = [r \in Reqs |-> NoLoc]
    /\ resp = [r \in Reqs |-> NoResp]
    /\ calls = [r \in Reqs |-> <<>>]
    /\ refs = (BASE_BRANCH :> BaseTree)
    /\ prs = <<>>
    /\ applied = [b \in BranchNames |-> {}]
    /\ \E in \in PolicyInputs :
         pol = [stage |-> "on", path |-> in[1], content |-> in[2],
                path_result |-> "none", content_result |-> "none",
                apply_result |-> NoResp]
    /\ hook = HookOff

\* _validate_path(path)
policy_validate_path ==
    /\ pol.stage = "on" /\ pol.path_result = "none"
    /\ pol' = [pol EXCEPT !.path_result = validate_path(pol.path)]
    /\ UNCHANGED <<slots, handler_vars, forge_vars, applied, hook>>

\* _validate_content(path, content)
policy_validate_content ==
    /\ pol.stage = "on" /\ pol.content_result = "none"
    /\ pol' = [pol EXCEPT !.content_result = validate_content(pol.path, pol.content)]
    /\ UNCHANGED <<slots, handler_vars, forge_vars, applied, hook>>

\* The checks of an authorised apply whose second change is the drawn path
\* and content, after a first change that is valid.
policy_apply_checks ==
    /\ pol.stage = "on" /\ pol.apply_result = NoResp
    /\ pol' = [pol EXCEPT !.apply_result =
                  apply_checks([op |-> "apply", x_api_key |-> {API_KEY},
                                branch_name |-> "feat",
                                changes |-> <<Change(CONFIG, PLAIN),
                                              Change(pol.path, pol.content)>>])]
    /\ UNCHANGED <<slots, handler_vars, forge_vars, applied, hook>>

PolicyNext == policy_validate_path \/ policy_validate_content \/ policy_apply_checks

PolicySpec == PolicyInit /\ [][PolicyNext]_vars

(***************************************************************************)
(* The webhook receiver (src/git_bridge/app.py): a process of its own,     *)
(* with its secret taken from the environment when it starts               *)
(***************************************************************************)

\* GITHUB_WEBHOOK_SECRET: not set (empty), or set.
WebhookSecrets == {<<>>, Str("k3y")}
\* Raw request bodies: empty, short, and longer than one block of the hash.
WebhookBodies ==
    {<<>>, Str("{\"zen\":\"x\"}"),
     Str("{\"action\":\"opened\",\"number\":1,\"pull_request\":{\"title\":\"t\"}}") \o <<195, 169, 10>>}
EventHeaders == {None, {Str("push")}, {Str("ping")}}

\* hmac.new(secret.encode("utf-8"), body, hashlib.sha256).hexdigest(), for the
\* secrets and bodies above.
ExpectedDigest ==
    [k \in WebhookSecrets \ {<<>>}, b \in WebhookBodies |->
        hexdigest(hmac_sha256(utf8_encode(k), b))]

\* str.upper() on hexadecimal digits.
Upper(s) == [i \in DOMAIN s |-> IF s[i] \in az THEN s[i] - 32 ELSE s[i]]

\* The X-Hub-Signature-256 headers offered with a body: none, empty, the
\* signature of the body under the secret in force (or under the model's
\* secret when none is in force), and variations of it.
SignatureHeaders(secret, body) ==
    LET Variations(hex, other) ==
            {None, {<<>>},
             {Str("sha256=") \o hex},
             {Str("sha256= ") \o hex \o <<9>>},
             {Str("sha256=") \o hex \o <<160>>},
             {Str("sha256=") \o Upper(hex)},
             {Str("sha256=") \o other},
             {Str("sha256=") \o SubSeq(hex, 1, 63)},
             {Str("sha256=") \o hex \o Str("0")},
             {Str("sha256==") \o hex},
             {Str("sha256=")},
             {Str("sha256=") \o hex \o <<233>>},
             {Str("SHA256=") \o hex},
             {Str("sha1=") \o hex},
             {Str(" sha256=") \o hex},
             {hex}}
        Offered(key) ==
            Variations(ExpectedDigest[key, body],
                       ExpectedDigest[key, CHOOSE b \in WebhookBodies : b # body])
    IN  Offered(IF secret = <<>> THEN Str("k3y") ELSE secret)

\* request.headers.get(name, default)
headers_get(header, default) == IF header = None THEN default ELSE CHOOSE v \in header : TRUE

\* str.startswith
startswith(s, prefix) == Len(s) >= Len(prefix) /\ SubSeq(s, 1, Len(prefix)) = prefix
\* s.split("=", 1)[1] for an s that contains "=": what follows the first "=".
after_first_equals(s) ==
    LET i == CHOOSE k \in DOMAIN s : s[k] = 61 /\ \A j \in 1..(k - 1) : s[j] # 61
    IN  SubSeq(s, i + 1, Len(s))
\* str.strip(): leading and trailing whitespace removed.
strip(s) ==
    LET keep == {i \in DOMAIN s : s[i] \notin Whitespace}
    IN  IF keep = {} THEN <<>>
        ELSE SubSeq(s, CHOOSE i \in keep : \A j \in keep : i <= j,
                       CHOOSE i \in keep : \A j \in keep : j <= i)
\* hmac.compare_digest on two str: TypeError unless both are ASCII.
compare_digest(a, b) ==
    IF \E c \in Range(a) \cup Range(b) : c > 127 THEN "TypeError"
    ELSE IF a = b THEN "True" ELSE "False"

\* Defective variant: any header that starts with sha256= is accepted.
verify_prefix_only(secret, body, signature_header) ==
    IF secret = <<>> THEN "True"
    ELSE IF startswith(signature_header, Str("sha256=")) THEN "True" ELSE "False"

\* verify_github_signature: "True", "False", or the exception it raises.
verify_github_signature(secret, body, signature_header) ==
    IF secret = <<>> THEN "True"
    ELSE IF signature_header = <<>> \/ ~startswith(signature_header, Str("sha256="))
    THEN "False"
    ELSE compare_digest(ExpectedDigest[secret, body],
                        strip(after_first_equals(signature_header)))

NoAnswer == [status |-> 0, ok |-> FALSE, event |-> <<>>, error |-> <<>>]
Unknown == Str("unknown")
InvalidSignature == Str("invalid signature")

WebhookInit ==
    /\ slots = {}
    /\ pc = [r \in Reqs |-> "idle"]
    /\ req = [r \in Reqs |-> NoReq]
    /\ loc = [r \in Reqs |-> NoLoc]
    /\ resp = [r \in Reqs |-> NoResp]
    /\ calls = [r \in Reqs |-> <<>>]
    /\ refs = (BASE_BRANCH :> BaseTree)
    /\ prs = <<>>
    /\ applied = [b \in BranchNames |-> {}]
    /\ pol = PolOff
    /\ \E secret \in WebhookSecrets :
         hook = [stage |-> "idle", secret |-> secret, body |-> <<>>,
                 signature |-> None, event |-> None, resp |-> NoAnswer]

\* POST /github/webhook
github_webhook ==
    /\ hook.stage = "idle"
    /\ \E body \in WebhookBodies, ev \in EventHeaders :
         \E sh \in SignatureHeaders(hook.secret, body) :
           LET sig == headers_get(sh, <<>>)
               v == verify_github_signature(hook.secret, body, sig)
               answer ==
                   IF v = "TypeError"
                   THEN [status |-> 500, ok |-> FALSE, event |-> <<>>, error |-> Str("TypeError")]
                   ELSE IF v # "True"
                   THEN [status |-> 200, ok |-> FALSE, event |-> <<>>,
                         error |-> InvalidSignature]
                   ELSE [status |-> 200, ok |-> TRUE, event |-> headers_get(ev, Unknown),
                         error |-> <<>>]
           IN  hook' = [hook EXCEPT !.stage = "done", !.body = body, !.signature = sh,
                                    !.event = ev, !.resp = answer]
    /\ UNCHANGED <<slots, handler_vars, forge_vars, applied, pol>>

\* The answer has been sent; the receiver waits for the next delivery.
webhook_finish ==
    /\ hook.stage = "done"
    /\ hook' = [hook EXCEPT !.stage = "idle", !.body = <<>>, !.signature = None,
                            !.event = None, !.resp = NoAnswer]
    /\ UNCHANGED <<slots, handler_vars, forge_vars, applied, pol>>

WebhookNext == github_webhook \/ webhook_finish

WebhookSpec == WebhookInit /\ [][WebhookNext]_vars

(***************************************************************************)
(* Properties                                                              *)
(***************************************************************************)

Failed(call) == call.status = NoResponse.status \/ call.status >= 400
Succeeded(call) == ~Failed(call)
IsApply(r) == req[r].op = "apply"
IsGetFile(r) == req[r].op = "get_file"
Ops(r) == {calls[r][n].op : n \in DOMAIN calls[r]}
Last(s) == s[Len(s)]

\* The changes of the model's universe that fail path or content validation.
FailingChanges ==
    {c \in Changes :
        validate_path(c.path) # "ok" \/ validate_content(c.path, c.content) # "ok"}
ChangeFails(c) == c \in FailingChanges

\* C1: an apply request one of whose changes fails path or content validation,
\* at whatever position, issues no branch-creation, file lookup, file write, PR
\* or label call, and ends with an error.
C1_ValidationAllOrNothing ==
    \A r \in Reqs :
        (IsApply(r) /\ \E k \in DOMAIN req[r].changes : ChangeFails(req[r].changes[k]))
        => /\ Ops(r) \cap {"POST refs", "GET contents", "PUT contents",
                            "POST pulls", "POST labels"} = {}
           /\ pc[r] = "done"
           /\ resp[r].status \in {400, 401}

\* C1 witness: an authorised batch whose first change is valid and whose second
\* fails validation was rejected with 400 and no call.
C1_Witness ==
    \E r \in Reqs :
        /\ IsApply(r) /\ pc[r] = "done" /\ req[r].x_api_key = {API_KEY}
        /\ Len(req[r].changes) = 2
        /\ ~ChangeFails(req[r].changes[1]) /\ ChangeFails(req[r].changes[2])
        /\ resp[r].status = 400 /\ calls[r] = <<>>

\* C2: a request to /repo/file or /repo/apply whose key is missing, empty or
\* not the configured one ends with 401 Unauthorized, whatever its path and
\* content, and makes no forge call.
C2_AuthGate ==
    \A r \in Reqs :
        ((IsApply(r) \/ IsGetFile(r)) /\ req[r].x_api_key # {API_KEY})
        => /\ pc[r] = "done"
           /\ resp[r].status = 401 /\ resp[r].detail = "Unauthorized"
           /\ calls[r] = <<>>

\* C2 witness: a request with a wrong key and a path that validation would
\* reject was answered 401.
C2_Witness ==
    \E r \in Reqs :
        /\ pc[r] = "done" /\ resp[r].status = 401
        /\ \/ IsGetFile(r) /\ req[r].x_api_key = {"wrong"}
              /\ validate_path(req[r].path) # "ok"
           \/ IsApply(r) /\ req[r].x_api_key = None
              /\ \E k \in DOMAIN req[r].changes : ChangeFails(req[r].changes[k])

\* The changes of request r whose file write succeeded.
Written(r) ==
    {calls[r][n].i : n \in {m \in DOMAIN calls[r] :
                               calls[r][m].op = "PUT contents" /\ Succeeded(calls[r][m])}}
CreatedBranch(r) ==
    \E n \in DOMAIN calls[r] : calls[r][n].op = "POST refs" /\ Succeeded(calls[r][n])
\* The last of the changes K of request r that names path.
LastWrite(r, K, path) ==
    CHOOSE k \in K : /\ req[r].changes[k].path = path
                     /\ \A j \in K : req[r].changes[j].path = path => j <= k

\* C3: when an apply that created its branch ends with an error, the branch is
\* still on the forge and every file it wrote still holds what it wrote.
C3_NoRollback ==
    \A r \in Reqs :
        (IsApply(r) /\ pc[r] = "done" /\ resp[r].status # 200 /\ CreatedBranch(r))
        => /\ req[r].branch_name \in DOMAIN refs
           /\ \A k \in Written(r) :
                LET path == req[r].changes[k].path
                IN  /\ path \in DOMAIN refs[req[r].branch_name]
                    /\ refs[req[r].branch_name][path] =
                         utf8_encode(req[r].changes[LastWrite(r, Written(r), path)].content)
           /\ Ops(r) \subseteq {"GET ref", "POST refs", "GET contents", "PUT contents",
                                 "POST pulls", "POST labels"}

\* C3 witness: the first write succeeded, the second change failed, and the call
\* returned its error.
C3_Witness ==
    \E r \in Reqs :
        /\ IsApply(r) /\ pc[r] = "done" /\ resp[r].status = 502
        /\ CreatedBranch(r) /\ Written(r) = {1} /\ Len(req[r].changes) = 2
        /\ Last(calls[r]).op = "PUT contents" /\ Last(calls[r]).i = 2
        /\ req[r].changes[1].path \in DOMAIN refs[req[r].branch_name]

PrOpened(r) ==
    \E n \in DOMAIN calls[r] : calls[r][n].op = "POST pulls" /\ Succeeded(calls[r][n])

\* C4: once the PR was opened, apply returns success with the head branch and
\* the number and URL of that PR, whatever became of the label call.
C4_LabelFailureSwallowed ==
    \A r \in Reqs :
        (IsApply(r) /\ PrOpened(r))
        => /\ pc[r] \in {"add_label", "done"}
           /\ pc[r] = "done" =>
                /\ resp[r].status = 200
                /\ resp[r].body.head_branch = req[r].branch_name
                /\ resp[r].body.pr_number \in DOMAIN prs
                /\ prs[resp[r].body.pr_number].head = req[r].branch_name
                /\ resp[r].body.pr_url = PrUrl(resp[r].body.pr_number)

\* C4 witness: the label call failed (an error status, or no response) and the
\* response is the success.
C4_Witness ==
    \E r \in Reqs :
        /\ IsApply(r) /\ pc[r] = "done" /\ resp[r].status = 200
        /\ Last(calls[r]).op = "POST labels" /\ Last(calls[r]).status = NoResponse.status

\* C9: a read of configuration.yaml at a branch, served by the forge after an
\* apply that wrote content C to configuration.yaml succeeded on that branch,
\* returns 200 with exactly C.
C9_ReadRoundTrip ==
    \A r \in Reqs :
        (/\ IsGetFile(r) /\ pc[r] = "done" /\ req[r].path = CONFIG
         /\ calls[r] # <<>> /\ Succeeded(Last(calls[r])))
        => \A written \in loc[r].seen :
               CONFIG \in DOMAIN written
               => /\ resp[r].status = 200
                  /\ resp[r].body.content = written[CONFIG]

\* C9 witness: text with two-, three- and four-byte characters, longer than
\* one line of base64, was written by an apply and read back.
C9_Witness ==
    \E r \in Reqs :
        /\ IsGetFile(r) /\ pc[r] = "done" /\ req[r].path = CONFIG /\ req[r].ref = "feat"
        /\ \E written \in loc[r].seen :
              CONFIG \in DOMAIN written /\ written[CONFIG] = WIDE
        /\ resp[r].status = 200 /\ resp[r].body.content = WIDE

\* The last forge round trip of request r failed: no response, or an error
\* status (404 on the lookup of upsert_file is the signal to create the file,
\* and the label call is outside steps 3-5).
LastRoundTripFailed(r) ==
    /\ calls[r] # <<>> /\ Failed(Last(calls[r]))
    /\ Last(calls[r]).op # "POST labels"
    /\ ~(IsApply(r) /\ Last(calls[r]).op = "GET contents" /\ Last(calls[r]).status = 404)

\* C10 (as claimed): a request whose forge round trip failed, by an error
\* status or by a timeout, ends with 502.
C10_ForgeFailureIs502 ==
    \A r \in Reqs :
        (pc[r] = "done" /\ LastRoundTripFailed(r)) => resp[r].status = 502

\* C5 - C8 are stated of the policy engine on its own (PolicySpec).

\* The part of C10 the code does implement: a round trip the forge answered
\* with an error status ends the request with 502.
C10_ErrorStatusIs502 ==
    \A r \in Reqs :
        (pc[r] = "done" /\ LastRoundTripFailed(r) /\ Last(calls[r]).status >= 400)
        => resp[r].status = 502

\* A round trip that got no response in time ended the request with 500.
C10_TimeoutIs500 ==
    \E r \in Reqs :
        /\ pc[r] = "done" /\ LastRoundTripFailed(r)
        /\ Last(calls[r]).status = NoResponse.status
        /\ resp[r].status = 500

PathChecked == pol.stage = "on" /\ pol.path_result # "none"
ContentChecked == pol.stage = "on" /\ pol.content_result # "none"
MatchesDeny(path) == match_any(DENYLIST_PATTERNS, path)
MatchesAllow(path) == match_any(ALLOWLIST_PATTERNS, path)

\* C5: a path that matches a deny rule fails with PathDenied, whether or not it
\* matches an allow rule.
C5_DenyTakesPrecedence ==
    (PathChecked /\ MatchesDeny(pol.path)) => pol.path_result = "PathDenied"

DeniedPackage == Str("packages/a.key")

\* C5 witness: a denied path under packages/ was validated.
C5_Witness ==
    /\ PathChecked /\ MatchesDeny(pol.path)
    /\ pol.path = DeniedPackage
    /\ pol.path_result = "PathDenied"

\* C6: a path that matches no deny rule and no allow rule fails with
\* PathNotAllowed; a path passes only if it matches an allow rule and no deny
\* rule.
C6_DefaultDeny ==
    PathChecked =>
        /\ (~MatchesDeny(pol.path) /\ ~MatchesAllow(pol.path))
               => pol.path_result = "PathNotAllowed"
        /\ pol.path_result = "ok" => (MatchesAllow(pol.path) /\ ~MatchesDeny(pol.path))

NestedConfig == Str("dir/configuration.yaml")

\* C6 witness: a path no rule matches was validated.
C6_Witness ==
    /\ PathChecked /\ ~MatchesDeny(pol.path) /\ ~MatchesAllow(pol.path)
    /\ pol.path = NestedConfig
    /\ pol.path_result = "PathNotAllowed"

StartsWith(s, t) == Len(s) >= Len(t) /\ SubSeq(s, 1, Len(t)) = t
EndsWith(s, t) == Len(s) >= Len(t) /\ SubSeq(s, Len(s) - Len(t) + 1, Len(s)) = t

\* The allow-listed shapes: the four file names, and packages/<segments>.yml or
\* .yaml, where <segments> is one or more letters, digits, "_", "-" and "/".
PackagesDir == Str("packages/")
YamlExtensions == {Str(".yml"), Str(".yaml")}
AllowedNames == {Str("configuration.yaml"), Str("automations.yaml"),
                 Str("scripts.yaml"), Str("scenes.yaml")}
IsPackagesShape(p) ==
    \E ext \in YamlExtensions :
        /\ StartsWith(p, PackagesDir) /\ EndsWith(p, ext)
        /\ Len(p) > Len(PackagesDir) + Len(ext)
        /\ \A i \in (Len(PackagesDir) + 1)..(Len(p) - Len(ext)) : p[i] \in PkgChars
IsAllowedShape(p) == p \in AllowedNames \/ IsPackagesShape(p)

\* C7: a path of an allow-listed shape is matched by no deny rule, and
\* validate_path lets it through.
C7_AllowedShapesPass ==
    (PathChecked /\ IsAllowedShape(pol.path))
    => (~MatchesDeny(pol.path) /\ pol.path_result = "ok")

NestedPackage == Str("packages/a/b-c_D9.yml")

\* C7 witness: a .yml file in a subdirectory of packages/ was let through.
C7_Witness ==
    /\ PathChecked /\ pol.path = NestedPackage
    /\ IsAllowedShape(pol.path) /\ pol.path_result = "ok"

\* The text occurs in content, letter case aside.
ContainsAt(content, i, text) ==
    /\ i + Len(text) - 1 <= Len(content)
    /\ \A j \in DOMAIN text : Fold(content[i + j - 1]) = Fold(text[j])
Contains(content, text) == \E i \in 1..(Len(content) + 1) : ContainsAt(content, i, text)
\* "Authorization: Bearer " followed by a token character, letter case aside.
BearerHeader == Str("Authorization: Bearer ")
PrivateKeyHeader == Str("BEGIN PRIVATE KEY")
ContainsBearer(content) ==
    \E i \in DOMAIN content :
        /\ ContainsAt(content, i, BearerHeader)
        /\ i + Len(BearerHeader) <= Len(content)
        /\ content[i + Len(BearerHeader)] \in TokChars
IsSecret(content) == Contains(content, PrivateKeyHeader) \/ ContainsBearer(content)

\* C8: content that holds a case variant of BEGIN PRIVATE KEY, or
\* "Authorization: Bearer <token>", fails with SecretDetected for every path,
\* and an authorised apply that carries it is rejected with 400 by its checks,
\* before its first forge call.
C8_SecretsDetected ==
    (pol.stage = "on" /\ IsSecret(pol.content))
    => /\ pol.content_result \in {"none", "SecretDetected"}
       /\ pol.apply_result.status \in {0, 400}

LowerCaseBearer == Str("x: 1\n-----authorization: bearer x-----\n")

\* C8 witness: a lower-case bearer header on a path that passes validate_path
\* was rejected, alone and inside a batch.
C8_Witness ==
    /\ pol.stage = "on" /\ pol.content = LowerCaseBearer
    /\ pol.path = CONFIG /\ pol.path_result = "ok"
    /\ pol.content_result = "SecretDetected"
    /\ pol.apply_result.status = 400 /\ pol.apply_result.detail = "SecretDetected"

\* C11: an apply answers success only after the whole sequence: its key was the
\* configured one, every change passed validation, the branch was created, the
\* write of each of the N changes succeeded and the PR was opened; an apply
\* that has ended answered either success or an error, nothing in between.
C11_SuccessOnlyAfterFullSequence ==
    \A r \in Reqs :
        (IsApply(r) /\ pc[r] = "done")
        => /\ resp[r].status = 200 \/ resp[r].status >= 400
           /\ resp[r].status = 200
              => /\ req[r].x_api_key = {API_KEY}
                 /\ \A k \in DOMAIN req[r].changes : ~ChangeFails(req[r].changes[k])
                 /\ CreatedBranch(r)
                 /\ Written(r) = DOMAIN req[r].changes
                 /\ PrOpened(r)
                 /\ resp[r].body.head_branch = req[r].branch_name

\* C11 witness: an apply of two changes answered success with both written.
C11_Witness ==
    \E r \in Reqs :
        /\ IsApply(r) /\ pc[r] = "done" /\ resp[r].status = 200
        /\ Len(req[r].changes) = 2 /\ Written(r) = {1, 2}

\* C12: an authenticated read whose path is denied or not allowed ends with a
\* 400 policy error and makes no forge call; the file fetch is issued only for
\* a path that passes validate_path.
C12_ReadGate ==
    \A r \in Reqs :
        IsGetFile(r)
        => /\ (req[r].x_api_key = {API_KEY} /\ validate_path(req[r].path) # "ok")
              => /\ pc[r] = "done" /\ calls[r] = <<>>
                 /\ resp[r].status = 400
                 /\ resp[r].detail = validate_path(req[r].path)
           /\ calls[r] # <<>> => validate_path(req[r].path) = "ok"

\* C12 witness: an authenticated read of a denied path was answered 400
\* without a forge call.
C12_Witness ==
    \E r \in Reqs :
        /\ IsGetFile(r) /\ pc[r] = "done" /\ req[r].x_api_key = {API_KEY}
        /\ req[r].path = DENIED /\ resp[r].status = 400
        /\ resp[r].detail = "PathDenied" /\ calls[r] = <<>>

\* The signature header is sha256= followed by the hexadecimal HMAC-SHA256 of
\* the body under the secret, and nothing else.
ExactSignature ==
    hook.signature = {Str("sha256=") \o ExpectedDigest[hook.secret, hook.body]}

\* The signature header is sha256=, then the HMAC-SHA256 of the body under the
\* secret in lower-case hexadecimal, with any whitespace before and after it.
PaddedSignature ==
    /\ hook.signature # None
    /\ LET s == headers_get(hook.signature, <<>>)
           hex == ExpectedDigest[hook.secret, hook.body]
       IN  /\ Len(s) >= 7 + Len(hex)
           /\ SubSeq(s, 1, 7) = Str("sha256=")
           /\ \E k \in 8..(Len(s) - Len(hex) + 1) :
                 /\ SubSeq(s, k, k + Len(hex) - 1) = hex
                 /\ \A j \in 8..Len(s) :
                       (j < k \/ j >= k + Len(hex)) => s[j] \in Whitespace

Acknowledged == hook.stage = "done" /\ hook.resp.ok

\* With no secret configured every delivery is acknowledged with its event name
\* ("unknown" when the event header is absent), whatever its signature header.
AcknowledgedWithoutSecret ==
    (hook.stage = "done" /\ hook.secret = <<>>)
    => /\ hook.resp.status = 200 /\ hook.resp.ok
       /\ hook.resp.event = headers_get(hook.event, Unknown)

\* C13 (as claimed): with a secret configured, a delivery is acknowledged with
\* ok=true only if its signature header is exactly sha256= followed by the
\* HMAC-SHA256 of the raw body under the secret.
C13_AcknowledgedOnlyIfExactSignature ==
    /\ AcknowledgedWithoutSecret
    /\ (Acknowledged /\ hook.secret # <<>>) => ExactSignature

\* C13 (amended): with no secret configured every delivery is acknowledged with
\* its event name; with a secret configured a delivery is acknowledged with
\* ok=true exactly when its signature header is sha256= followed by the
\* HMAC-SHA256 of the raw body under the secret, whitespace around the digest
\* being ignored; a missing, empty, differently prefixed or mismatching
\* signature is answered ok=false (or an error) and never ok=true.
C13_WebhookAcknowledgment ==
    /\ AcknowledgedWithoutSecret
    /\ (hook.stage = "done" /\ hook.secret # <<>>)
       => /\ hook.resp.ok <=> PaddedSignature
          /\ hook.resp.ok => /\ hook.resp.status = 200
                             /\ hook.resp.event = headers_get(hook.event, Unknown)
          /\ ~hook.resp.ok => hook.resp.event = <<>>

\* C13 witness: with a secret configured, a delivery signed with the exact
\* header was acknowledged with its event name.
C13_Witness ==
    /\ Acknowledged /\ hook.secret # <<>> /\ ExactSignature
    /\ hook.body # <<>> /\ hook.event = {Str("push")} /\ hook.resp.event = Str("push")

\* A forge call of apply steps 3-5 that failed: no response, or an error status
\* (the 404 of a file lookup is the answer "absent"; the label call is step 6).
StepFailed(call) ==
    /\ call.op # "POST labels" /\ Failed(call)
    /\ ~(call.op = "GET contents" /\ call.status = 404)

\* C14: once a forge call of steps 3-5 of an apply has failed, the request makes
\* no further forge call: the failed call is the last of its call log, the
\* request has ended and its answer is an error.
C14_AbortOnFirstFailure ==
    \A r \in Reqs :
        IsApply(r)
        => \A n \in DOMAIN calls[r] :
              StepFailed(calls[r][n])
              => /\ n = Len(calls[r])
                 /\ pc[r] = "done" /\ resp[r].status >= 400

\* C14 witness: the write of the first of two changes was refused by the forge;
\* the request ended there with 502, the second change untouched, no PR.
C14_Witness ==
    \E r \in Reqs :
        /\ IsApply(r) /\ pc[r] = "done" /\ Len(req[r].changes) = 2
        /\ Len(calls[r]) = 4 /\ calls[r][4].op = "PUT contents" /\ calls[r][4].status = 500
        /\ resp[r].status = 502 /\ "POST pulls" \notin Ops(r)

\* The forge calls of a complete apply of N changes, in order.
Steps(N) ==
    <<<<"GET ref", 0>>, <<"POST refs", 0>>>>
    \o [k \in 1..(2 * N) |->
            <<IF k % 2 = 1 THEN "GET contents" ELSE "PUT contents", (k + 1) \div 2>>]
    \o <<<<"POST pulls", 0>>, <<"POST labels", 0>>>>
CallStep(call) ==
    <<call.op, IF call.op \in {"GET contents", "PUT contents"} THEN call.i ELSE 0>>

\* C15: the forge calls of an apply are a prefix of: base-ref lookup, branch
\* creation, lookup and write of change 1 .. N in turn, PR opening, label; a
\* call is issued only after every earlier call succeeded, and only by a request
\* that was authenticated and whose changes all passed validation; success is
\* answered only after the label call.
C15_StepOrdering ==
    \A r \in Reqs :
        IsApply(r)
        => LET steps == Steps(Len(req[r].changes))
           IN  /\ Len(calls[r]) <= Len(steps)
               /\ \A n \in DOMAIN calls[r] :
                     /\ CallStep(calls[r][n]) = steps[n]
                     /\ n < Len(calls[r]) => ~StepFailed(calls[r][n])
               /\ calls[r] # <<>>
                  => /\ req[r].x_api_key = {API_KEY}
                     /\ \A k \in DOMAIN req[r].changes : ~ChangeFails(req[r].changes[k])
               /\ (pc[r] = "done" /\ resp[r].status = 200)
                  => /\ Len(calls[r]) = Len(steps)
                     /\ Last(calls[r]).op = "POST labels"

\* C15 witness: an apply of two changes went through all eight calls and ended
\* with success although the label call failed.
C15_Witness ==
    \E r \in Reqs :
        /\ IsApply(r) /\ pc[r] = "done" /\ resp[r].status = 200
        /\ Len(req[r].changes) = 2 /\ Len(calls[r]) = 8
        /\ Failed(calls[r][8])

\* C16: the changes are upserted one at a time in the order given: the write of
\* change i precedes the lookup of change j for i < j; a write of a path that an
\* earlier change of the request wrote carries the hash of what that change
\* wrote; and the branch holds at each written path the content of the last
\* change written there.
C16_UpsertsInOrder ==
    \A r \in Reqs :
        IsApply(r)
        => /\ \A n, m \in DOMAIN calls[r] :
                 (/\ calls[r][n].op = "PUT contents" /\ calls[r][m].op = "GET contents"
                  /\ calls[r][n].i < calls[r][m].i) => n < m
           /\ \A n, m \in DOMAIN calls[r] :
                 (/\ calls[r][n].op \in {"GET contents", "PUT contents"}
                  /\ calls[r][m].op \in {"GET contents", "PUT contents"}
                  /\ n < m) => calls[r][n].i <= calls[r][m].i
           /\ \A n \in DOMAIN calls[r] :
                 calls[r][n].op = "PUT contents"
                 => LET j == calls[r][n].i
                        path == req[r].changes[j].path
                        before == {i \in 1..(j - 1) : req[r].changes[i].path = path}
                    IN  /\ calls[r][n].path = path
                        /\ before # {}
                           => calls[r][n].sha =
                                BlobSha(utf8_encode(
                                    req[r].changes[LastWrite(r, before, path)].content))
           /\ \A k \in Written(r) :
                 LET path == req[r].changes[k].path
                 IN  refs[req[r].branch_name][path] =
                       utf8_encode(req[r].changes[LastWrite(r, Written(r), path)].content)

\* C16 witness: two changes of the same path with different contents were
\* applied; the second write carried the hash of the first content and the
\* branch holds the second content.
C16_Witness ==
    \E r \in Reqs :
        /\ IsApply(r) /\ pc[r] = "done" /\ resp[r].status = 200
        /\ req[r].changes = <<Change(CONFIG, PLAIN), Change(CONFIG, WIDE)>>
        /\ calls[r][6].op = "PUT contents"
        /\ calls[r][6].sha = BlobSha(utf8_encode(PLAIN))
        /\ refs[req[r].branch_name][CONFIG] = utf8_encode(WIDE)

\* C17: a file write directly follows the one lookup of the same path on the
\* same branch; after a lookup that found the file (200) the write carries the
\* hash the lookup returned, the hash of the file as it is on the branch; after
\* a lookup that reported absence (404) it carries none; a lookup that got any
\* other response ends the request with 502 and no write.
C17_ReadBeforeWrite ==
    \A r \in Reqs :
        IsApply(r)
        => /\ \A n \in DOMAIN calls[r] :
                 calls[r][n].op = "PUT contents"
                 => /\ n > 1
                    /\ calls[r][n - 1].op = "GET contents"
                    /\ calls[r][n - 1].i = calls[r][n].i
                    /\ calls[r][n - 1].path = calls[r][n].path
                    /\ calls[r][n - 1].ref = calls[r][n].ref
                    /\ calls[r][n - 1].status \in {200, 404}
                    /\ calls[r][n - 1].status = 200
                       => calls[r][n].sha = calls[r][n - 1].sha /\ calls[r][n].sha # NoSha
                    /\ calls[r][n - 1].status = 404 => calls[r][n].sha = NoSha
           /\ \A n, m \in DOMAIN calls[r] :
                 (/\ calls[r][n].op = "GET contents" /\ calls[r][m].op = "GET contents"
                  /\ calls[r][n].i = calls[r][m].i) => n = m
           /\ \A n \in DOMAIN calls[r] :
                 (calls[r][n].op = "GET contents" /\ calls[r][n].status \notin {200, 404, -1})
                 => /\ n = Len(calls[r]) /\ pc[r] = "done"
                    /\ resp[r].status = 502
           /\ pc[r] = "upsert_put"
              => LET tree == refs[upsert_branch(r)]
                 IN  loc[r].file_sha = IF ch(r).path \in DOMAIN tree
                                       THEN BlobSha(tree[ch(r).path]) ELSE NoSha

\* C17 witness: one apply updated a file that was on the branch (write with the
\* hash, 200) and created one that was not (write without hash, 201).
C17_Witness ==
    \E r \in Reqs :
        /\ IsApply(r) /\ Len(calls[r]) >= 6
        /\ calls[r][3].status = 200 /\ calls[r][4].sha = BlobSha(BaseTree[CONFIG])
        /\ calls[r][4].status = 200
        /\ calls[r][5].status = 404 /\ calls[r][6].sha = NoSha /\ calls[r][6].status = 201

\* The number of calls of request r with the given operation and change index.
Attempts(r, op, i) ==
    Cardinality({n \in DOMAIN calls[r] : CallStep(calls[r][n]) = <<op, i>>})

\* Within one request every forge operation is attempted at most once, hence at
\* most 2N+4 calls for an apply of N changes and one call for a read.
AtMostOnce ==
    \A r \in Reqs :
        /\ IsApply(r)
           => /\ \A op \in {"GET ref", "POST refs", "POST pulls", "POST labels"} :
                    Attempts(r, op, 0) <= 1
              /\ \A i \in DOMAIN req[r].changes :
                    Attempts(r, "GET contents", i) <= 1 /\ Attempts(r, "PUT contents", i) <= 1
              /\ Len(calls[r]) <= 2 * Len(req[r].changes) + 4
              /\ \A n \in DOMAIN calls[r] :
                    CallStep(calls[r][n]) \in Range(Steps(Len(req[r].changes)))
        /\ IsGetFile(r) => Len(calls[r]) <= 1

\* C18: no forge operation is retried within a request (at most 2N+4 calls for N
\* changes), and a request that has started always reaches its answer, success
\* or the first failure, every forge call returning or timing out.
C18_NoRetryAndTermination ==
    /\ []AtMostOnce
    /\ \A r \in Reqs : (pc[r] # "idle") ~> (pc[r] = "done")

\* C18 witness: an apply of one change ended with success after exactly six
\* calls, 2N+4 for N = 1, the label call served.
C18_Witness ==
    \E r \in Reqs :
        /\ IsApply(r) /\ pc[r] = "done" /\ resp[r].status = 200
        /\ Len(req[r].changes) = 1 /\ Len(calls[r]) = 6
        /\ Succeeded(calls[r][6])

\* The requests one of whose file writes on branch b succeeded.
Writers(b) ==
    {r \in Reqs : \E n \in DOMAIN calls[r] :
        /\ calls[r][n].op = "PUT contents" /\ calls[r][n].ref = b
        /\ Succeeded(calls[r][n])}
\* The forge rejected the branch creation of request r: the ref exists.
CreationRejected(r) ==
    \E n \in DOMAIN calls[r] : calls[r][n].op = "POST refs" /\ calls[r][n].status = 422

\* C19: of two apply requests that target the same branch name, in any
\* interleaving, at most one gets past branch creation; a request whose
\* creation the forge rejected ends with 502 having issued no file lookup, file
\* write, PR or label call; and the file writes that succeeded on a branch are
\* those of one request.
C19_OneCreatorPerBranch ==
    /\ \A r1, r2 \in Reqs :
          (/\ r1 # r2 /\ IsApply(r1) /\ IsApply(r2)
           /\ req[r1].branch_name = req[r2].branch_name)
          => ~(CreatedBranch(r1) /\ CreatedBranch(r2))
    /\ \A r \in Reqs :
          IsApply(r)
          => /\ CreationRejected(r)
                => /\ pc[r] = "done" /\ resp[r].status = 502
                   /\ Last(calls[r]).op = "POST refs"
             /\ ~CreatedBranch(r)
                => Ops(r) \cap {"GET contents", "PUT contents", "POST pulls",
                                "POST labels"} = {}
    /\ \A b \in BranchNames : Cardinality(Writers(b)) <= 1

\* C19 witness: two requests for the same branch were in flight together: one
\* created the branch, has written a file and is still running; the other was
\* rejected at creation and answered 502 after its two calls.
C19_Witness ==
    \E r1, r2 \in Reqs :
        /\ r1 # r2 /\ IsApply(r1) /\ IsApply(r2)
        /\ req[r1].branch_name = req[r2].branch_name
        /\ CreatedBranch(r1) /\ Writers(req[r1].branch_name) = {r1} /\ pc[r1] # "done"
        /\ CreationRejected(r2) /\ pc[r2] = "done" /\ resp[r2].status = 502
        /\ Len(calls[r2]) = 2 /\ req[r2].changes # <<>>

\* No file of a branch that exists changes, and no branch disappears, except
\* that a request which created the branch itself writes a file on it.
OnlyCreatorWrites ==
    \A b \in DOMAIN refs :
        /\ b \in DOMAIN refs'
        /\ refs'[b] # refs[b]
           => \E r \in Reqs :
                 /\ pc[r] = "upsert_put" /\ IsApply(r)
                 /\ req[r].branch_name = b /\ CreatedBranch(r)

\* Every file lookup and write of an apply is on the branch the request named,
\* which it created itself and which is not the base branch; an apply whose
\* branch the forge refused to create, the ref existing, ends 502 there.
WritesOnOwnBranch ==
    /\ refs[BASE_BRANCH] = BaseTree
    /\ \A r \in Reqs :
          IsApply(r)
          => /\ \A n \in DOMAIN calls[r] :
                   calls[r][n].op \in {"GET contents", "PUT contents"}
                   => /\ CreatedBranch(r)
                      /\ calls[r][n].ref = req[r].branch_name
                      /\ calls[r][n].ref # BASE_BRANCH
             /\ (req[r].branch_name = BASE_BRANCH /\ Len(calls[r]) >= 2)
                => /\ calls[r][2].status \in {422, 500, -1}
                   /\ Len(calls[r]) = 2 /\ pc[r] = "done"
             /\ CreationRejected(r)
                => /\ pc[r] = "done" /\ resp[r].status = 502 /\ Len(calls[r]) = 2

\* C20: every file write of an apply targets a branch that the same request
\* created earlier; when branch_name is the base branch or a branch that
\* exists, creation fails and no file of that branch is modified: the base
\* branch never changes, and a branch changes only by the request that made it.
C20_NeverWritesExistingBranch ==
    []WritesOnOwnBranch /\ [][OnlyCreatorWrites]_vars

\* C20 witness: an apply named a branch that an earlier apply had created and
\* written; the forge refused the creation (422), the request ended with 502
\* after two calls and the branch still holds what the earlier apply wrote.
C20_Witness ==
    \E r \in Reqs :
        /\ IsApply(r) /\ pc[r] = "done" /\ req[r].branch_name = "feat"
        /\ req[r].changes = <<Change(CONFIG, PLAIN)>>
        /\ CreationRejected(r) /\ resp[r].status = 502 /\ Len(calls[r]) = 2
        /\ "feat" \in DOMAIN refs /\ refs["feat"][CONFIG] = utf8_encode(WIDE)

====
